---- MODULE Spec2Model ----
(***************************************************************************)
(* Browser automation extension: the Node.js dispatch API (index.js), its  *)
(* TaskQueue and TabManager, as a state machine.                           *)
(*                                                                         *)
(* Time is counted in seconds.  JavaScript's falsy values are modelled by  *)
(* 0 for numbers (undefined, null, 0) and "" for strings (undefined, null, *)
(* ""); a request body says which of its fields are present in "has".      *)
(***************************************************************************)
EXTENDS Integers, Sequences, FiniteSets, TLC

VARIABLES
  now,          \* Date.now(), in seconds since the server started
  taskQueue,    \* TaskQueue.queue: the pending tasks, head first
  pendingTasks, \* the Map taskId -> {resolve, reject, timeout}
  timers,       \* the armed setTimeout handles of waitForTaskCompletion
  requests,     \* every HTTP submission and the response it has (or awaits)
  tabManager,   \* the TabManager object and its fs.writeFile calls in flight
  dbFile,       \* the content of openedTabs.json
  submitted,    \* history: the tasks accepted into the queue, in order
  pulled,       \* history: the tasks handed out by /get-task, in order
  arrivals,     \* history: per write in flight, the mutating calls since it began
  calls,        \* history: how many calls of the TabManager's methods have run
  lastOp,       \* history: the last call that reached the TabManager, and its input
  reportReply,  \* the response sent to the last report of the executor
  executor      \* the extension: its poll timer, debounced reporter and browser

vars == <<now, taskQueue, pendingTasks, timers, requests, tabManager, dbFile,
          submitted, pulled, arrivals, calls, lastOp, reportReply, executor>>

(***************************************************************************)
(* Bounds of the model and constants of the program.                       *)
(***************************************************************************)
MaxRequests == 2
MaxCalls == 3
MaxSubmitTime == 10
TickStep == 10
MaxArrivals == 2
timeoutMs == 30

TabIds == {1, 2}
WindowIds == {1, 2}
Urls == {"a", "b"}

(***************************************************************************)
(* Array helpers.                                                          *)
(***************************************************************************)
\* Array.prototype.findIndex with the test "element.key = value": the first
\* index whose element passes, 0 for JavaScript's -1.
IndexOfTab(tabs, tabId) ==
  IF \E i \in 1..Len(tabs) : tabs[i].tabId = tabId
  THEN CHOOSE i \in 1..Len(tabs) :
         /\ tabs[i].tabId = tabId
         /\ \A j \in 1..(i - 1) : tabs[j].tabId # tabId
  ELSE 0

IndexOfWindow(windows, windowId) ==
  IF \E i \in 1..Len(windows) : windows[i].windowId = windowId
  THEN CHOOSE i \in 1..Len(windows) :
         /\ windows[i].windowId = windowId
         /\ \A j \in 1..(i - 1) : windows[j].windowId # windowId
  ELSE 0

\* Array.prototype.includes
Includes(seq, x) == \E i \in 1..Len(seq) : seq[i] = x

\* Array.prototype.splice(index, 1)
RemoveAt(seq, i) == SubSeq(seq, 1, i - 1) \o SubSeq(seq, i + 1, Len(seq))

\* Array.prototype.filter((id) => id !== x)
RECURSIVE FilterOut(_, _)
FilterOut(seq, x) ==
  IF seq = <<>> THEN <<>>
  ELSE IF Head(seq) = x THEN FilterOut(Tail(seq), x)
       ELSE <<Head(seq)>> \o FilterOut(Tail(seq), x)

(***************************************************************************)
(* TabManager (managers/TabManager.js).                                    *)
(***************************************************************************)
NewTabManager ==
  [openedTabs |-> <<>>, openedWindows |-> <<>>,
   saveInProgress |-> FALSE, saveQueued |-> FALSE, writes |-> <<>>]

\* saveData: JSON.stringify(data) is taken now, fs.writeFile completes later.
saveData(tm) ==
  [tm EXCEPT !.writes = Append(@, [openedTabs |-> tm.openedTabs,
                                   openedWindows |-> tm.openedWindows])]

scheduleSave(tm) ==
  IF tm.saveInProgress
  THEN [tm EXCEPT !.saveQueued = TRUE]
  ELSE saveData([tm EXCEPT !.saveInProgress = TRUE])

associateTabWithWindow(tm, tabId, windowId, t) ==
  LET w == IndexOfWindow(tm.openedWindows, windowId) IN
  IF w # 0
  THEN IF ~Includes(tm.openedWindows[w].tabs, tabId)
       THEN [tm EXCEPT !.openedWindows[w].tabs = Append(@, tabId)]
       ELSE tm
  ELSE [tm EXCEPT !.openedWindows =
          Append(@, [windowId |-> windowId, tabs |-> <<tabId>>, openedAt |-> t])]

addOrUpdateTab(tm, tabId, windowId, url, t) ==
  LET tabIndex == IndexOfTab(tm.openedTabs, tabId)
      tm1 == IF tabIndex # 0
             THEN [tm EXCEPT !.openedTabs[tabIndex] =
                     [@ EXCEPT !.url = url, !.windowId = windowId, !.lastUpdated = t]]
             ELSE [tm EXCEPT !.openedTabs =
                     Append(@, [tabId |-> tabId, windowId |-> windowId, url |-> url,
                                openedAt |-> t, lastUpdated |-> t])]
  IN scheduleSave(associateTabWithWindow(tm1, tabId, windowId, t))

removeClosedTab(tm, tabId) ==
  LET tabIndex == IndexOfTab(tm.openedTabs, tabId) IN
  IF tabIndex # 0
  THEN LET removedTab == tm.openedTabs[tabIndex]
           tm1 == [tm EXCEPT !.openedTabs = RemoveAt(@, tabIndex)]
           w == IndexOfWindow(tm1.openedWindows, removedTab.windowId)
           tm2 == IF w # 0
                  THEN LET left == FilterOut(tm1.openedWindows[w].tabs, tabId) IN
                       IF Len(left) = 0
                       THEN [tm1 EXCEPT !.openedWindows = RemoveAt(@, w)]
                       ELSE [tm1 EXCEPT !.openedWindows[w].tabs = left]
                  ELSE tm1
       IN scheduleSave(tm2)
  ELSE tm

\* The forEach body of replaceAllTabs, applied to the tabs in order.
RECURSIVE replaceAllTabsLoop(_, _, _)
replaceAllTabsLoop(tm, tabs, t) ==
  IF tabs = <<>> THEN tm
  ELSE LET tab == Head(tabs)
           tm1 == [tm EXCEPT !.openedTabs =
                     Append(@, [tabId |-> tab.tabId, windowId |-> tab.windowId,
                                url |-> tab.url, openedAt |-> t, lastUpdated |-> t])]
           w == IndexOfWindow(tm1.openedWindows, tab.windowId)
           tm2 == IF w # 0
                  THEN IF ~Includes(tm1.openedWindows[w].tabs, tab.tabId)
                       THEN [tm1 EXCEPT !.openedWindows[w].tabs = Append(@, tab.tabId)]
                       ELSE tm1
                  ELSE [tm1 EXCEPT !.openedWindows =
                          Append(@, [windowId |-> tab.windowId, tabs |-> <<tab.tabId>>,
                                     openedAt |-> t])]
       IN replaceAllTabsLoop(tm2, Tail(tabs), t)

\* Mutant: the loop runs without the two arrays having been emptied.
replaceAllTabsKeepsOld(tm, tabs, t) ==
  scheduleSave(replaceAllTabsLoop(tm, tabs, t))

replaceAllTabs(tm, tabs, t) ==
  scheduleSave(replaceAllTabsLoop(
    [tm EXCEPT !.openedTabs = <<>>, !.openedWindows = <<>>], tabs, t))

RECURSIVE bulkAddOrUpdateTabs(_, _, _)
bulkAddOrUpdateTabs(tm, tabs, t) ==
  IF tabs = <<>> THEN tm
  ELSE bulkAddOrUpdateTabs(
         addOrUpdateTab(tm, Head(tabs).tabId, Head(tabs).windowId, Head(tabs).url, t),
         Tail(tabs), t)

getAllOpenedTabs(tm) == tm.openedTabs

clearAll(tm) ==
  saveData([tm EXCEPT !.openedTabs = <<>>, !.openedWindows = <<>>])

(***************************************************************************)
(* Persistence: the fs.writeFile callback, and the history of the calls    *)
(* that arrive while a write is in flight.                                 *)
(***************************************************************************)
NoFile == [status |-> "absent", openedTabs |-> <<>>, openedWindows |-> <<>>]
PartialFile == [status |-> "partial", openedTabs |-> <<>>, openedWindows |-> <<>>]
WrittenFile(w) ==
  [status |-> "written", openedTabs |-> w.openedTabs, openedWindows |-> w.openedWindows]

Min(a, b) == IF a < b THEN a ELSE b

\* The arrivals after one store call took the manager from tmBefore to tmAfter:
\* a mutating call counts against every write then in flight, a write the call
\* started begins at 0.
Track(arr, tmBefore, tmAfter, mutating) ==
  [i \in 1..Len(tmAfter.writes) |->
     IF i <= Len(tmBefore.writes)
     THEN IF mutating THEN Min(arr[i] + 1, MaxArrivals) ELSE arr[i]
     ELSE 0]

RECURSIVE TrackBulk(_, _, _, _)
TrackBulk(arr, tm, tabs, t) ==
  IF tabs = <<>> THEN arr
  ELSE LET tm1 == addOrUpdateTab(tm, Head(tabs).tabId, Head(tabs).windowId,
                                 Head(tabs).url, t)
       IN TrackBulk(Track(arr, tm, tm1, TRUE), tm1, Tail(tabs), t)

\* Mutant: the callback forgets the queued save instead of starting it.
writeFileCallbackDropsQueue(tm, i) ==
  [tm EXCEPT !.writes = RemoveAt(@, i), !.saveInProgress = FALSE, !.saveQueued = FALSE]

\* The callback of fs.writeFile for the write at index i of those in flight.
writeFileCallback(tm, i) ==
  LET tm1 == [tm EXCEPT !.writes = RemoveAt(@, i), !.saveInProgress = FALSE] IN
  IF tm1.saveQueued
  THEN scheduleSave([tm1 EXCEPT !.saveQueued = FALSE])
  ELSE tm1

(***************************************************************************)
(* TaskQueue (managers/TaskQueue.js).                                      *)
(***************************************************************************)
addTask(queue, task) == Append(queue, task)

\* getNextTask: the task returned (NoTask for null) and the queue left.
NoTask == [taskId |-> "", command |-> "", tabId |-> 0, url |-> "", jsFunction |-> ""]

\* Mutant: the head is handed out and stays queued (peekNextTask).
getNextTaskPeeks(queue) ==
  IF Len(queue) = 0
  THEN [task |-> NoTask, queue |-> queue]
  ELSE [task |-> Head(queue), queue |-> queue]

\* Mutant: the queue is emptied by the pull.
getNextTaskClears(queue) ==
  IF Len(queue) = 0
  THEN [task |-> NoTask, queue |-> queue]
  ELSE [task |-> Head(queue), queue |-> <<>>]

\* Mutant: Array.prototype.pop in place of shift.
getNextTaskPops(queue) ==
  IF Len(queue) = 0
  THEN [task |-> NoTask, queue |-> queue]
  ELSE [task |-> queue[Len(queue)], queue |-> SubSeq(queue, 1, Len(queue) - 1)]

getNextTask(queue) ==
  IF Len(queue) = 0
  THEN [task |-> NoTask, queue |-> queue]
  ELSE [task |-> Head(queue), queue |-> Tail(queue)]

peekNextTask(queue) == IF Len(queue) = 0 THEN NoTask ELSE queue[1]

(***************************************************************************)
(* Request bodies.  Every body is a record of the same shape; "has" names  *)
(* the fields the JSON body carries.                                       *)
(***************************************************************************)
NoBody ==
  [has |-> {}, taskId |-> "", command |-> "", url |-> "", jsFunction |-> "",
   tabId |-> 0, windowId |-> 0, closedTabId |-> 0, error |-> "", tabs |-> <<>>]

\* typeof body.tabId === 'number'
IsNumber(body, field) == field \in body.has

UserTaskIds == {"", "x"}

\* The bodies posted to /add-task: every command with and without the fields it
\* needs, a command that is not in validCommands, and one that is no command.
AddTaskShapes ==
  { [NoBody EXCEPT !.has = {"command", "url"}, !.command = "open-tab", !.url = "a"],
    [NoBody EXCEPT !.has = {"command"}, !.command = "open-tab"],
    [NoBody EXCEPT !.has = {"command", "tabId"}, !.command = "close-tab", !.tabId = 1],
    [NoBody EXCEPT !.has = {"command"}, !.command = "close-tab"],
    [NoBody EXCEPT !.has = {"command", "url"}, !.command = "find-tab", !.url = "a"],
    [NoBody EXCEPT !.has = {"command", "tabId", "jsFunction"}, !.command = "execute-js",
                   !.tabId = 1, !.jsFunction = "f"],
    [NoBody EXCEPT !.has = {"command", "tabId"}, !.command = "execute-js", !.tabId = 1],
    [NoBody EXCEPT !.has = {"command", "tabId"}, !.command = "switch-tab", !.tabId = 1],
    [NoBody EXCEPT !.has = {"command"}, !.command = "bogus"] }

AddTaskBodies ==
  { [b EXCEPT !.taskId = id, !.has = IF id = "" THEN @ ELSE @ \cup {"taskId"}] :
      b \in AddTaskShapes, id \in UserTaskIds }

SwitchTabBodies ==
  { NoBody } \cup { [NoBody EXCEPT !.has = {"tabId"}, !.tabId = t] : t \in TabIds }

ExecuteJsBodies ==
  { NoBody,
    [NoBody EXCEPT !.has = {"tabId"}, !.tabId = 1],
    [NoBody EXCEPT !.has = {"tabId", "jsFunction"}, !.tabId = 1, !.jsFunction = "f"] }

\* The data of a report: a tab's identity (the url may be empty), a closed tab,
\* or a result that names no tab.
ReportData ==
  { [NoBody EXCEPT !.has = {"tabId", "windowId", "url"},
                   !.tabId = t, !.windowId = w, !.url = u] :
      t \in TabIds, w \in WindowIds, u \in Urls \cup {""} }
  \cup { [NoBody EXCEPT !.has = {"closedTabId"}, !.closedTabId = t] : t \in TabIds }
  \cup { NoBody }

ErrorMessages == {"boom"}

\* The tab lists posted to /sync-tabs.
Tab(t, w, u) == [tabId |-> t, windowId |-> w, url |-> u]

SyncLists ==
  { <<>>,
    <<Tab(1, 1, "a")>>,
    <<Tab(2, 2, "b")>>,
    <<Tab(1, 1, "a"), Tab(2, 1, "b")>>,
    <<Tab(2, 2, "a"), Tab(1, 1, "b")>>,
    <<Tab(1, 1, "a"), Tab(1, 2, "b")>> }

(***************************************************************************)
(* The rendezvous table (index.js: pendingTasks, waitForTaskCompletion).   *)
(***************************************************************************)
MapSet(map, key, value) ==
  [k \in DOMAIN map \cup {key} |-> IF k = key THEN value ELSE map[k]]

MapDelete(map, key) == [k \in DOMAIN map \ {key} |-> map[k]]

NoMap == [k \in {} |-> 0]

\* The promise of request r is settled: the first settlement decides the
\* response, which the handler awaiting it sends at once.
Settle(reqs, r, outcome, status, error, data, t) ==
  [reqs EXCEPT ![r] =
     IF @.outcome = "waiting"
     THEN [@ EXCEPT !.outcome = outcome, !.status = status, !.error = error,
                    !.result = data, !.respondedAt = t, !.settles = @ + 1]
     ELSE [@ EXCEPT !.settles = @ + 1]]

\* Mutant: the timer is armed but the entry is not stored in pendingTasks.
waitForTaskCompletionUnregistered(pending, armed, taskId, r, t) ==
  [pendingTasks |-> pending,
   timers |-> armed \cup {[handle |-> r, taskId |-> taskId, due |-> t + timeoutMs]}]

\* waitForTaskCompletion(taskId), called for request r at time t: the
\* pendingTasks map and the timers after it.
waitForTaskCompletion(pending, armed, taskId, r, t) ==
  [pendingTasks |-> MapSet(pending, taskId, [resolve |-> r, reject |-> r, timeout |-> r]),
   timers |-> armed \cup {[handle |-> r, taskId |-> taskId, due |-> t + timeoutMs]}]

\* clearTimeout(handle)
clearTimeout(armed, handle) == { tm \in armed : tm.handle # handle }

NewRequest(entry, taskId, outcome, status, error, t) ==
  [entry |-> entry, taskId |-> taskId, outcome |-> outcome,
   status |-> status, error |-> error, result |-> NoBody,
   registeredAt |-> t, respondedAt |-> t, settles |-> 0]

(***************************************************************************)
(* The state after construction: nothing queued, nothing awaited, no       *)
(* openedTabs.json to load.                                                *)
(***************************************************************************)
\* No report has been answered yet.
NoReply == [status |-> 0, success |-> FALSE, found |-> FALSE]

\* res.json({ success: true }) to the report of taskId; found says whether
\* pendingTasks.has(taskId) held when the report arrived.
ReplyTo(taskId, pending) ==
  [status |-> 200, success |-> TRUE, found |-> taskId \in DOMAIN pending]

\* No debounced call is waiting: timerId is null.
NoCall == [task |-> 0, taskId |-> "", data |-> NoBody]

\* The extension when it is loaded: not polling yet, nothing to report, and a
\* browser without tabs.
NewExecutor ==
  [pollingTimer |-> FALSE, timerId |-> NoCall, syncing |-> FALSE, running |-> {},
   sent |-> <<>>, lastTick |-> "none", browser |-> {}, events |-> 0]

NoOp == [op |-> "none", body |-> NoBody, taskId |-> "", before |-> {}]

\* A call named name, with input body, for task taskId, found the tabs of tm tracked.
Op(name, body, taskId, tm) ==
  [op |-> name, body |-> body, taskId |-> taskId,
   before |-> { tm.openedTabs[i].tabId : i \in 1..Len(tm.openedTabs) }]

Init ==
  /\ now = 0
  /\ taskQueue = <<>>
  /\ pendingTasks = NoMap
  /\ timers = {}
  /\ requests = <<>>
  /\ tabManager = NewTabManager
  /\ dbFile = NoFile
  /\ submitted = <<>>
  /\ pulled = <<>>
  /\ arrivals = <<>>
  /\ calls = 0
  /\ lastOp = NoOp
  /\ reportReply = NoReply
  /\ executor = NewExecutor

(***************************************************************************)
(* The submission handlers of index.js.                                    *)
(***************************************************************************)
validCommands == {"open-tab", "close-tab", "find-tab", "execute-js"}

\* A task is enqueued and its wait registered for the new request r.
Enqueue(entry, task) ==
  LET r == Len(requests) + 1
      w == waitForTaskCompletion(pendingTasks, timers, task.taskId, r, now)
  IN /\ taskQueue' = addTask(taskQueue, task)
     /\ submitted' = Append(submitted, task)
     /\ pendingTasks' = w.pendingTasks
     /\ timers' = w.timers
     /\ requests' = Append(requests,
                      NewRequest(entry, task.taskId, "waiting", 0, "", now))

\* The handler answers at once with an error status and touches nothing.
Refuse(entry, outcome, status) ==
  /\ requests' = Append(requests, NewRequest(entry, "", outcome, status, outcome, now))
  /\ UNCHANGED <<taskQueue, submitted, pendingTasks, timers>>

\* POST /add-task
AddTask(body) ==
  /\ Len(requests) < MaxRequests
  /\ now <= MaxSubmitTime
  /\ IF body.command \notin validCommands
     THEN Refuse("add-task", "invalid", 400)
     ELSE LET newTaskId == IF body.taskId # "" THEN body.taskId
                           ELSE "task-" \o ToString(now)
          IN Enqueue("add-task",
                     [taskId |-> newTaskId, command |-> body.command,
                      tabId |-> body.tabId, url |-> body.url,
                      jsFunction |-> body.jsFunction])
  /\ UNCHANGED <<now, tabManager, dbFile, pulled, arrivals, calls, lastOp, reportReply,
                 executor>>

\* Mutant: the search compares the task's id, never equal to a tab's.
existingTaskByTaskId(queue, tabId) ==
  \E i \in 1..Len(queue) :
    queue[i].command = "switch-tab" /\ queue[i].taskId = ToString(tabId)

\* taskQueue.queue.find(task => task.command === "switch-tab" && task.tabId === tabId)
existingTask(queue, tabId) ==
  \E i \in 1..Len(queue) : queue[i].command = "switch-tab" /\ queue[i].tabId = tabId

\* POST /switch-tab
SwitchTab(body) ==
  /\ Len(requests) < MaxRequests
  /\ now <= MaxSubmitTime
  /\ IF ~IsNumber(body, "tabId")
     THEN Refuse("switch-tab", "invalid", 400)
     ELSE IF existingTask(taskQueue, body.tabId)
     THEN Refuse("switch-tab", "conflict", 409)
     ELSE Enqueue("switch-tab",
                  [taskId |-> "switch-tab-" \o ToString(body.tabId) \o "-" \o ToString(now),
                   command |-> "switch-tab", tabId |-> body.tabId,
                   url |-> "", jsFunction |-> ""])
  /\ UNCHANGED <<now, tabManager, dbFile, pulled, arrivals, calls, lastOp, reportReply,
                 executor>>

\* POST /execute-js
ExecuteJs(body) ==
  /\ Len(requests) < MaxRequests
  /\ now <= MaxSubmitTime
  /\ IF ~IsNumber(body, "tabId") \/ "jsFunction" \notin body.has
     THEN Refuse("execute-js", "invalid", 400)
     ELSE Enqueue("execute-js",
                  [taskId |-> "execute-js-" \o ToString(body.tabId) \o "-" \o ToString(now),
                   command |-> "execute-js", tabId |-> body.tabId,
                   url |-> "", jsFunction |-> body.jsFunction])
  /\ UNCHANGED <<now, tabManager, dbFile, pulled, arrivals, calls, lastOp, reportReply,
                 executor>>

\* The handler of GET /get-task.
ServeGetTask ==
  LET next == getNextTask(taskQueue) IN
  /\ taskQueue' = next.queue
  /\ pulled' = IF next.task # NoTask THEN Append(pulled, next.task) ELSE pulled
  /\ UNCHANGED <<now, pendingTasks, timers, requests, tabManager, dbFile,
                 submitted, arrivals, calls, lastOp, reportReply>>

\* GET /get-task
GetTask == ServeGetTask /\ UNCHANGED executor

(***************************************************************************)
(* The report handlers, the timeout and the resync.                        *)
(***************************************************************************)
\* The task ids a report may name: those of the submissions, and the id of an
\* ambient event, which no submitter awaits.
ReportTaskIds == { requests[r].taskId : r \in 1..Len(requests) } \cup {"auto-open"}

\* Whether a report's data makes POST /report-result call the TabManager.
touchesStore(data) ==
  \/ data.tabId # 0 /\ data.windowId # 0 /\ data.url # ""
  \/ data.closedTabId # 0

\* The store side effect of POST /report-result.
applyReport(tm, data, t) ==
  LET tm1 == IF data.tabId # 0 /\ data.windowId # 0 /\ data.url # ""
             THEN addOrUpdateTab(tm, data.tabId, data.windowId, data.url, t)
             ELSE tm
  IN IF data.closedTabId # 0 THEN removeClosedTab(tm1, data.closedTabId) ELSE tm1

trackReport(arr, tm, data, t) ==
  LET upsert == data.tabId # 0 /\ data.windowId # 0 /\ data.url # ""
      tm1 == IF upsert
             THEN addOrUpdateTab(tm, data.tabId, data.windowId, data.url, t)
             ELSE tm
      arr1 == Track(arr, tm, tm1, upsert)
  IN IF data.closedTabId # 0
     THEN Track(arr1, tm1, removeClosedTab(tm1, data.closedTabId),
                IndexOfTab(tm1.openedTabs, data.closedTabId) # 0)
     ELSE arr1

\* Mutant: a report whose id has no entry resolves some other wait.
resolvePendingAnyWait(pending, armed, reqs, taskId, data, t) ==
  LET id == IF taskId \in DOMAIN pending \/ DOMAIN pending = {} THEN taskId
            ELSE CHOOSE k \in DOMAIN pending : TRUE
  IN IF id \in DOMAIN pending
     THEN [pendingTasks |-> MapDelete(pending, id),
           timers |-> clearTimeout(armed, pending[id].timeout),
           requests |-> Settle(reqs, pending[id].resolve, "success", 200, "", data, t)]
     ELSE [pendingTasks |-> pending, timers |-> armed, requests |-> reqs]

\* if (pendingTasks.has(taskId)) { clearTimeout(timeout); resolve(data); delete }
resolvePending(pending, armed, reqs, taskId, data, t) ==
  IF taskId \in DOMAIN pending
  THEN [pendingTasks |-> MapDelete(pending, taskId),
        timers |-> clearTimeout(armed, pending[taskId].timeout),
        requests |-> Settle(reqs, pending[taskId].resolve, "success", 200, "", data, t)]
  ELSE [pendingTasks |-> pending, timers |-> armed, requests |-> reqs]

\* if (pendingTasks.has(taskId)) { clearTimeout(timeout); reject(new Error(errorMsg)); delete }
rejectPending(pending, armed, reqs, taskId, errorMsg, t) ==
  IF taskId \in DOMAIN pending
  THEN [pendingTasks |-> MapDelete(pending, taskId),
        timers |-> clearTimeout(armed, pending[taskId].timeout),
        requests |-> Settle(reqs, pending[taskId].reject, "error", 500, errorMsg, NoBody, t)]
  ELSE [pendingTasks |-> pending, timers |-> armed, requests |-> reqs]

\* Mutant: the callback rejects and forgets pendingTasks.delete(taskId).
timeoutCallbackKeepsEntry(pending, reqs, taskId, t) ==
  IF taskId \in DOMAIN pending
  THEN [pendingTasks |-> pending,
        requests |-> Settle(reqs, pending[taskId].reject, "timeout", 500,
                            "Task timed out.", NoBody, t)]
  ELSE [pendingTasks |-> pending, requests |-> reqs]

\* The setTimeout callback of waitForTaskCompletion(taskId).
timeoutCallback(pending, reqs, taskId, t) ==
  IF taskId \in DOMAIN pending
  THEN [pendingTasks |-> MapDelete(pending, taskId),
        requests |-> Settle(reqs, pending[taskId].reject, "timeout", 500,
                            "Task timed out.", NoBody, t)]
  ELSE [pendingTasks |-> pending, requests |-> reqs]

\* The handler of POST /report-result.
ServeReportResult(taskId, data) ==
  /\ IF touchesStore(data)
     THEN /\ calls < MaxCalls
          /\ calls' = calls + 1
          /\ lastOp' = Op("report-result", data, taskId, tabManager)
     ELSE UNCHANGED <<calls, lastOp>>
  /\ tabManager' = applyReport(tabManager, data, now)
  /\ arrivals' = trackReport(arrivals, tabManager, data, now)
  /\ LET done == resolvePending(pendingTasks, timers, requests, taskId, data, now)
     IN /\ pendingTasks' = done.pendingTasks
        /\ timers' = done.timers
        /\ requests' = done.requests
  /\ reportReply' = ReplyTo(taskId, pendingTasks)
  /\ UNCHANGED <<now, taskQueue, dbFile, submitted, pulled>>

\* POST /report-result
ReportResult(taskId, data) == ServeReportResult(taskId, data) /\ UNCHANGED executor

\* The handler of POST /report-result/error.
ServeReportError(taskId, errorMsg) ==
  /\ LET done == rejectPending(pendingTasks, timers, requests, taskId, errorMsg, now)
     IN /\ pendingTasks' = done.pendingTasks
        /\ timers' = done.timers
        /\ requests' = done.requests
  /\ reportReply' = ReplyTo(taskId, pendingTasks)
  /\ UNCHANGED <<now, taskQueue, tabManager, dbFile, submitted, pulled, arrivals,
                 calls, lastOp>>

\* POST /report-result/error
ReportError(taskId, errorMsg) ==
  ServeReportError(taskId, errorMsg) /\ UNCHANGED executor

(***************************************************************************)
(* The executor (background.js): executeTask on a task it fetched.         *)
(***************************************************************************)
\* What a command function fails with: a thrown Error object carrying message,
\* or a promise rejected with the plain string message.
Thrown(message) == [isError |-> TRUE, message |-> message]

Rejected(message) == [isError |-> FALSE, message |-> message]

Succeeds(result) == [ok |-> TRUE, result |-> result, failure |-> Thrown("")]

Fails(failure) == [ok |-> FALSE, result |-> NoBody, failure |-> failure]

\* chrome.runtime.lastError.message
lastError == "No tab with id"

\* openTab(url)
openTab(url) ==
  { Succeeds([NoBody EXCEPT !.has = {"tabId", "windowId", "url"},
                            !.tabId = 1, !.windowId = 1, !.url = url]),
    Fails(Rejected(lastError)) }

\* closeTab(tabId)
closeTab(tabId) ==
  IF tabId = 0
  THEN { Fails(Rejected("No tabId provided to close-tab command")) }
  ELSE { Succeeds([NoBody EXCEPT !.has = {"closedTabId"}, !.closedTabId = tabId]),
         Fails(Rejected(lastError)) }

\* executeJSInTab(tabId, jsFunction)
executeJSInTab(tabId, jsFunction) ==
  IF tabId = 0 THEN { Fails(Thrown("No tabId provided to execute-js command")) }
  ELSE IF jsFunction = "" THEN { Fails(Thrown("No jsFunction provided for execution")) }
  ELSE { Succeeds(NoBody), Fails(Thrown("Failed to execute JS in tab: " \o lastError)) }

\* switchTab(tabId)
switchTab(tabId) ==
  IF tabId = 0 THEN { Fails(Thrown("No tabId provided to switch-tab command")) }
  ELSE { Succeeds(NoBody), Fails(Thrown("Failed to switch to tab: " \o lastError)) }

\* The switch of executeTask: how running the task may end.
runCommand(task) ==
  CASE task.command = "open-tab" -> openTab(task.url)
    [] task.command = "close-tab" -> closeTab(task.tabId)
    [] task.command = "execute-js" -> executeJSInTab(task.tabId, task.jsFunction)
    [] task.command = "switch-tab" -> switchTab(task.tabId)
    [] OTHER -> { Fails(Thrown("Unknown command: " \o task.command)) }

\* error.message in the catch of executeTask, as POST /report-result/error reads
\* it: a string has no message property, JSON.stringify drops the undefined
\* field, and new Error(undefined) has the empty message.
errorMessage(failure) == IF failure.isError THEN failure.message ELSE ""

\* executeTask(task) for the i-th task fetched, ending as outcome says: the
\* result or the error is reported to the server, which handles the report.
ExecuteTask(i, outcome) ==
  /\ i \in 1..Len(pulled)
  /\ outcome \in runCommand(pulled[i])
  /\ IF outcome.ok
     THEN ReportResult(pulled[i].taskId, outcome.result)
     ELSE ReportError(pulled[i].taskId, errorMessage(outcome.failure))

\* A timer of waitForTaskCompletion fires, at its due time or later.
TimerFires(tm) ==
  /\ tm \in timers
  /\ now >= tm.due
  /\ timers' = timers \ {tm}
  /\ LET done == timeoutCallback(pendingTasks, requests, tm.taskId, now)
     IN /\ pendingTasks' = done.pendingTasks
        /\ requests' = done.requests
  /\ UNCHANGED <<now, taskQueue, tabManager, dbFile, submitted, pulled, arrivals,
                 calls, lastOp, reportReply, executor>>

\* The handler of POST /sync-tabs: Array.isArray(tabs) fails when the body has
\* no tabs.
ServeSyncTabs(body) ==
  /\ IF "tabs" \notin body.has
     THEN UNCHANGED <<tabManager, arrivals, calls, lastOp>>
     ELSE /\ calls < MaxCalls
          /\ calls' = calls + 1
          /\ tabManager' = replaceAllTabs(tabManager, body.tabs, now)
          /\ arrivals' = Track(arrivals, tabManager, tabManager', TRUE)
          /\ lastOp' = Op("sync-tabs", body, "", tabManager)
  /\ UNCHANGED <<now, taskQueue, pendingTasks, timers, requests, dbFile,
                 submitted, pulled, reportReply>>

\* POST /sync-tabs
SyncTabs(body) == ServeSyncTabs(body) /\ UNCHANGED executor

SyncBodies ==
  { NoBody } \cup { [NoBody EXCEPT !.has = {"tabs"}, !.tabs = l] : l \in SyncLists }

\* The bodies syncOpenedTabs posts: chrome.tabs.query names no tab twice.
QueriedSyncBodies ==
  { b \in SyncBodies :
      \A i, j \in 1..Len(b.tabs) : b.tabs[i].tabId = b.tabs[j].tabId => i = j }

\* Time passes.
Tick ==
  /\ now < MaxSubmitTime + timeoutMs
  /\ now' = now + TickStep
  /\ UNCHANGED <<taskQueue, pendingTasks, timers, requests, tabManager, dbFile,
                 submitted, pulled, arrivals, calls, lastOp, reportReply, executor>>

\* fs.writeFile calls back for the write at index i, with or without an error;
\* a failed write leaves the file as it was or cut short.
WriteDone(i, err) ==
  /\ i \in 1..Len(tabManager.writes)
  /\ dbFile' \in IF err THEN {dbFile, PartialFile}
                 ELSE {WrittenFile(tabManager.writes[i])}
  /\ tabManager' = writeFileCallback(tabManager, i)
  /\ arrivals' = Track(RemoveAt(arrivals, i),
                       [tabManager EXCEPT !.writes = RemoveAt(@, i)], tabManager', FALSE)
  /\ UNCHANGED <<now, taskQueue, pendingTasks, timers, requests, submitted, pulled,
                 calls, lastOp, reportReply, executor>>

(***************************************************************************)
(* The extension (background.js): the poll loop, the debounced reporter    *)
(* and the listeners of the browser's tab events.  executor.running holds  *)
(* the fetched tasks whose executeTask has not ended, executor.sent counts *)
(* per fetched task the reports sent with its id, executor.events counts   *)
(* the browser events so far.                                              *)
(***************************************************************************)
ServerVars ==
  <<now, taskQueue, pendingTasks, timers, requests, tabManager, dbFile,
    submitted, pulled, arrivals, calls, lastOp, reportReply>>

\* The function debounce returns: a call cancels the call that is waiting, if
\* any, and waits in its place.
debounced(ex, call) == [ex EXCEPT !.timerId = call]

\* debouncedReportResult(taskId, data), for the fetched task at index task of
\* those fetched (0 for a browser event).
ReportCall(task, taskId, data) == [task |-> task, taskId |-> taskId, data |-> data]

\* Mutant: a tick that fails clears the interval timer.
afterTickStopsOnFailure(ex, tick) ==
  [ex EXCEPT !.lastTick = tick, !.pollingTimer = tick \in {"empty", "fetched"}]

\* fetchTask returns or is caught: setInterval keeps the timer armed.
afterTick(ex, tick) == [ex EXCEPT !.lastTick = tick]

\* chrome.tabs.query({}): the browser's tabs, here in the order of their ids.
RECURSIVE queryTabs(_)
queryTabs(tabs) ==
  IF tabs = {} THEN <<>>
  ELSE LET first == CHOOSE x \in tabs : \A y \in tabs : x.tabId <= y.tabId
       IN <<first>> \o queryTabs(tabs \ {first})

\* The listener of chrome.runtime.onInstalled and onStartup: syncOpenedTabs()
\* asks chrome for the tabs, startPollingTasks() arms the interval timer.
OnStartup ==
  /\ executor.events < MaxCalls
  /\ executor' = [executor EXCEPT !.pollingTimer = TRUE, !.syncing = TRUE,
                                  !.events = @ + 1]
  /\ UNCHANGED ServerVars

\* The callback of chrome.tabs.query in syncOpenedTabs: the tabs are posted to
\* /sync-tabs; reached says whether the fetch reached the server.
SyncOpenedTabs(reached) ==
  /\ executor.syncing
  /\ executor' = [executor EXCEPT !.syncing = FALSE]
  /\ IF reached
     THEN ServeSyncTabs([NoBody EXCEPT !.has = {"tabs"},
                                      !.tabs = queryTabs(executor.browser)])
     ELSE UNCHANGED ServerVars

\* How the fetch of /get-task may end: it throws, it answers with a status that
\* is not ok, or it answers.
FetchOutcomes == {"throws", "not-ok", "ok"}

\* A tick of setInterval(fetchTask, POLL_INTERVAL), up to the call of
\* executeTask for the task fetched, if one was.
PollTick(fetched) ==
  /\ executor.pollingTimer
  /\ IF fetched = "ok"
     THEN /\ ServeGetTask
          /\ executor' =
               IF taskQueue = <<>> THEN afterTick(executor, "empty")
               ELSE afterTick([executor EXCEPT !.running = @ \cup {Len(pulled) + 1},
                                               !.sent = Append(@, 0)], "fetched")
     ELSE /\ executor' = afterTick(executor, IF fetched = "throws" THEN "fetch-failed"
                                             ELSE "not-ok")
          /\ UNCHANGED ServerVars

\* executeTask ends for the fetched task at index i: a result goes to the
\* debounced reporter, a failure is reported at once by reportError, whose
\* fetch may fail to reach the server.
FinishTask(i, outcome, reached) ==
  /\ i \in executor.running
  /\ outcome \in runCommand(pulled[i])
  /\ IF outcome.ok
     THEN /\ reached
          /\ executor' = debounced([executor EXCEPT !.running = @ \ {i}],
                                   ReportCall(i, pulled[i].taskId, outcome.result))
          /\ UNCHANGED ServerVars
     ELSE /\ executor' = [executor EXCEPT !.running = @ \ {i}, !.sent[i] = @ + 1,
                                          !.lastTick = IF reached THEN "failed"
                                                       ELSE "report-failed"]
          /\ IF reached
             THEN ServeReportError(pulled[i].taskId, errorMessage(outcome.failure))
             ELSE UNCHANGED ServerVars

\* The timer of the debounced reporter fires: reportResult posts the call that
\* was waiting.
DebounceFires(reached) ==
  /\ executor.timerId # NoCall
  /\ LET call == executor.timerId IN
     /\ executor' = [executor EXCEPT
                       !.timerId = NoCall,
                       !.sent = IF call.task # 0 THEN [@ EXCEPT ![call.task] = @ + 1]
                                ELSE @]
     /\ IF reached
        THEN ServeReportResult(call.taskId, call.data)
        ELSE UNCHANGED ServerVars

\* A browser event: the browser's tabs change and the listener hands its report
\* to the debounced reporter.
BrowserEvent(tabs, taskId, data) ==
  /\ executor.events < MaxCalls
  /\ executor' = debounced([executor EXCEPT !.browser = tabs, !.events = @ + 1],
                           ReportCall(0, taskId, data))
  /\ UNCHANGED ServerVars

TabData(tab) ==
  [NoBody EXCEPT !.has = {"tabId", "windowId", "url"},
                 !.tabId = tab.tabId, !.windowId = tab.windowId, !.url = tab.url]

\* chrome.tabs.onCreated
TabCreated(t, w, u) ==
  /\ \A tab \in executor.browser : tab.tabId # t
  /\ BrowserEvent(executor.browser \cup {Tab(t, w, u)}, "auto-open", TabData(Tab(t, w, u)))

\* chrome.tabs.onRemoved
TabRemoved(tab) ==
  /\ tab \in executor.browser
  /\ BrowserEvent(executor.browser \ {tab}, "auto-close",
                  [NoBody EXCEPT !.has = {"closedTabId"}, !.closedTabId = tab.tabId])

\* chrome.tabs.onUpdated with changeInfo.url
TabUpdated(tab, u) ==
  /\ tab \in executor.browser
  /\ tab.url # u
  /\ BrowserEvent((executor.browser \ {tab}) \cup {[tab EXCEPT !.url = u]},
                  "auto-update", TabData([tab EXCEPT !.url = u]))

\* chrome.tabs.onMoved: the tab changes place and chrome.tabs.get reads it.
TabMoved(tab) ==
  /\ tab \in executor.browser
  /\ BrowserEvent(executor.browser, "auto-move", TabData(tab))

(***************************************************************************)
(* The TabManager called directly, as any of its users may call it.        *)
(***************************************************************************)
StoreCall(name, body, tm) ==
  /\ calls < MaxCalls
  /\ calls' = calls + 1
  /\ tabManager' = tm
  /\ lastOp' = Op(name, body, "", tabManager)
  /\ UNCHANGED <<now, taskQueue, pendingTasks, timers, requests, dbFile,
                 submitted, pulled, reportReply, executor>>

AddOrUpdateTab(tabId, windowId, url) ==
  /\ StoreCall("addOrUpdateTab",
               [NoBody EXCEPT !.has = {"tabId", "windowId", "url"},
                              !.tabId = tabId, !.windowId = windowId, !.url = url],
               addOrUpdateTab(tabManager, tabId, windowId, url, now))
  /\ arrivals' = Track(arrivals, tabManager, tabManager', TRUE)

RemoveClosedTab(tabId) ==
  /\ StoreCall("removeClosedTab",
               [NoBody EXCEPT !.has = {"closedTabId"}, !.closedTabId = tabId],
               removeClosedTab(tabManager, tabId))
  /\ arrivals' = Track(arrivals, tabManager, tabManager',
                       IndexOfTab(tabManager.openedTabs, tabId) # 0)

ReplaceAllTabs(tabs) ==
  /\ StoreCall("replaceAllTabs", [NoBody EXCEPT !.has = {"tabs"}, !.tabs = tabs],
               replaceAllTabs(tabManager, tabs, now))
  /\ arrivals' = Track(arrivals, tabManager, tabManager', TRUE)

BulkAddOrUpdateTabs(tabs) ==
  /\ StoreCall("bulkAddOrUpdateTabs", [NoBody EXCEPT !.has = {"tabs"}, !.tabs = tabs],
               bulkAddOrUpdateTabs(tabManager, tabs, now))
  /\ arrivals' = TrackBulk(arrivals, tabManager, tabs, now)

ClearAll ==
  /\ StoreCall("clearAll", NoBody, clearAll(tabManager))
  /\ arrivals' = Track(arrivals, tabManager, tabManager', TRUE)

(***************************************************************************)
(* Specifications.  Spec is the dispatch service: submissions, pulls,       *)
(* reports of results that name no tab, timeouts.  WaitSpec is the same    *)
(* service with every submission an accepted /add-task.  ReportSpec is the *)
(* reconciliation path of the server: reports and resyncs that reach the   *)
(* TabManager, with submissions awaiting them.  StoreSpec is the           *)
(* TabManager under any sequence of calls of its methods.                  *)
(***************************************************************************)
\* The results of switch-tab and execute-js tasks name no tab.
TaskResults == { NoBody }

Next ==
  \/ \E body \in AddTaskBodies : AddTask(body)
  \/ \E body \in SwitchTabBodies : SwitchTab(body)
  \/ \E body \in ExecuteJsBodies : ExecuteJs(body)
  \/ GetTask
  \/ \E taskId \in ReportTaskIds, data \in TaskResults : ReportResult(taskId, data)
  \/ \E taskId \in ReportTaskIds, errorMsg \in ErrorMessages : ReportError(taskId, errorMsg)
  \/ \E tm \in timers : TimerFires(tm)
  \/ Tick

Spec == Init /\ [][Next]_vars

\* The submissions of WaitSpec: an accepted task under the caller's id or under a
\* generated one.
WaitBodies ==
  { b \in AddTaskBodies : b.command = "open-tab" /\ "url" \in b.has }

\* The rendezvous of submitters, executor and timers over accepted tasks.
WaitNext ==
  \/ \E body \in WaitBodies : AddTask(body)
  \/ GetTask
  \/ \E taskId \in ReportTaskIds, data \in TaskResults : ReportResult(taskId, data)
  \/ \E taskId \in ReportTaskIds, errorMsg \in ErrorMessages : ReportError(taskId, errorMsg)
  \/ \E tm \in timers : TimerFires(tm)
  \/ Tick

WaitSpec == Init /\ [][WaitNext]_vars

\* The submission of ReportSpec: an open-tab task under the caller's id.
ReportSpecBodies ==
  { b \in AddTaskBodies : b.command = "open-tab" /\ b.taskId = "x" /\ "url" \in b.has }

ReportNext ==
  \/ \E body \in ReportSpecBodies : AddTask(body)
  \/ \E taskId \in ReportTaskIds, data \in ReportData : ReportResult(taskId, data)
  \/ \E body \in QueriedSyncBodies : SyncTabs(body)

ReportSpec == Init /\ [][ReportNext]_vars

StoreNext ==
  \/ \E t \in TabIds, w \in WindowIds, u \in Urls : AddOrUpdateTab(t, w, u)
  \/ \E t \in TabIds : RemoveClosedTab(t)
  \/ \E tabs \in SyncLists : ReplaceAllTabs(tabs)
  \/ \E tabs \in SyncLists : BulkAddOrUpdateTabs(tabs)
  \/ ClearAll
  \/ \E i \in 1..Len(tabManager.writes), err \in BOOLEAN : WriteDone(i, err)

StoreSpec == Init /\ [][StoreNext]_vars

\* The TabManager with a file system whose writes succeed and complete.
PersistNext ==
  \/ \E t \in TabIds, w \in WindowIds, u \in Urls : AddOrUpdateTab(t, w, u)
  \/ \E t \in TabIds : RemoveClosedTab(t)
  \/ \E tabs \in SyncLists : ReplaceAllTabs(tabs)
  \/ \E tabs \in SyncLists : BulkAddOrUpdateTabs(tabs)
  \/ ClearAll
  \/ \E i \in 1..Len(tabManager.writes) : WriteDone(i, FALSE)

PersistSpec ==
  /\ Init
  /\ [][PersistNext]_vars
  /\ WF_vars(\E i \in 1..Len(tabManager.writes) : WriteDone(i, FALSE))

\* The service with its executor: every report is that of a task the executor
\* fetched and ran.
ExecutorNext ==
  \/ \E body \in AddTaskBodies : AddTask(body)
  \/ \E body \in SwitchTabBodies : SwitchTab(body)
  \/ \E body \in ExecuteJsBodies : ExecuteJs(body)
  \/ GetTask
  \/ \E i \in 1..Len(pulled) : \E outcome \in runCommand(pulled[i]) :
       ExecuteTask(i, outcome)
  \/ \E tm \in timers : TimerFires(tm)
  \/ Tick

ExecutorSpec == Init /\ [][ExecutorNext]_vars

\* The submissions of PollLoopSpec: execute-js tasks, whose results name no tab.
PollBodies ==
  { b \in AddTaskBodies : b.command = "execute-js" /\ "jsFunction" \in b.has }

\* The extension at work: it starts, polls, runs what it fetches and reports.
PollLoopNext ==
  \/ \E body \in PollBodies : AddTask(body)
  \/ OnStartup
  \/ \E reached \in BOOLEAN : SyncOpenedTabs(reached)
  \/ \E fetched \in FetchOutcomes : PollTick(fetched)
  \/ \E i \in executor.running : \E outcome \in runCommand(pulled[i]) :
       \E reached \in BOOLEAN : FinishTask(i, outcome, reached)
  \/ \E reached \in BOOLEAN : DebounceFires(reached)

PollLoopSpec == Init /\ [][PollLoopNext]_vars

\* Commands end and the timer of the debounced reporter fires.
PollLoopFairSpec ==
  /\ PollLoopSpec
  /\ WF_vars(\E i \in executor.running : \E outcome \in runCommand(pulled[i]) :
               \E reached \in BOOLEAN : FinishTask(i, outcome, reached))
  /\ WF_vars(\E reached \in BOOLEAN : DebounceFires(reached))

\* The browser's tabs change and the listeners report, every fetch reaching
\* the server.
AmbientNext ==
  \/ OnStartup
  \/ SyncOpenedTabs(TRUE)
  \/ DebounceFires(TRUE)
  \/ \E t \in TabIds, w \in WindowIds, u \in Urls : TabCreated(t, w, u)
  \/ \E tab \in executor.browser : TabRemoved(tab)
  \/ \E tab \in executor.browser, u \in Urls : TabUpdated(tab, u)
  \/ \E tab \in executor.browser : TabMoved(tab)

AmbientSpec ==
  /\ Init
  /\ [][AmbientNext]_vars
  /\ WF_vars(SyncOpenedTabs(TRUE))
  /\ WF_vars(DebounceFires(TRUE))

\* The executor keeps polling: setInterval(fetchTask, POLL_INTERVAL).
PullSpec == WaitSpec /\ WF_vars(GetTask)

\* The event loop runs every timer that is due, and time does not stop.
FairSpec ==
  /\ Spec
  /\ WF_vars(Tick)
  /\ WF_vars(\E tm \in timers : TimerFires(tm))

(***************************************************************************)
(* Properties of the dispatch service.                                     *)
(***************************************************************************)
Waiting(r) == r <= Len(requests) /\ requests[r].outcome = "waiting"

Answered(r) == r <= Len(requests) /\ requests[r].outcome # "waiting"

\* C1: every submitter whose task was accepted eventually observes a terminal
\* outcome (a success result, an error result or a timeout), whatever other
\* submissions, pulls and reports interleave, as long as timers keep firing.
C1_EverySubmitterAnswered ==
  \A r \in 1..MaxRequests : Waiting(r) ~> Answered(r)

\* C2: a wait undergoes at most one terminal transition: once its request is
\* answered, no later report and no timer changes the answer or settles the
\* promise again; and a wait ended by a report has no timer left armed.
C2_OneTerminalTransition ==
  /\ [][\A r \in 1..Len(requests) :
          requests[r].outcome # "waiting" => requests'[r] = requests[r]]_vars
  /\ [](\A r \in 1..Len(requests) :
          /\ requests[r].settles <= 1
          /\ requests[r].outcome \in {"success", "error"}
               => \A tm \in timers : tm.handle # r)

\* A wait was resolved by a report, its deadline has passed since, and it still
\* has exactly the one outcome.
C2_Witness ==
  \E r \in 1..Len(requests) :
    /\ requests[r].outcome = "success"
    /\ requests[r].settles = 1
    /\ now >= requests[r].registeredAt + timeoutMs
    /\ \E q \in 1..Len(requests) : q # r /\ requests[q].outcome = "timeout"

\* C3: the tasks handed out by /get-task, in order, are a prefix of the tasks
\* accepted, in order, and the queue holds exactly the rest.
C3_PullsAreFifo ==
  /\ Len(pulled) <= Len(submitted)
  /\ pulled = SubSeq(submitted, 1, Len(pulled))
  /\ taskQueue = SubSeq(submitted, Len(pulled) + 1, Len(submitted))

\* Two different tasks were submitted and both were pulled.
C3_Witness == Len(pulled) = 2 /\ pulled[1] # pulled[2]

\* C4: an open-tab submission without a url never reaches the queue.
C4_OpenTabNeedsUrl ==
  \A i \in 1..Len(taskQueue) :
    taskQueue[i].command = "open-tab" => taskQueue[i].url # ""

\* C5: a /switch-tab submission for a tabId that has a switch-tab task in the
\* queue is answered 409 and leaves the queue, the waits and the timers alone.
C5_DuplicateSwitchTabRefused ==
  [][\A body \in SwitchTabBodies :
       ( /\ SwitchTab(body)
         /\ "tabId" \in body.has
         /\ \E i \in 1..Len(taskQueue) :
              taskQueue[i].command = "switch-tab" /\ taskQueue[i].tabId = body.tabId )
       => /\ taskQueue' = taskQueue
          /\ pendingTasks' = pendingTasks
          /\ timers' = timers
          /\ requests'[Len(requests')].status = 409]_vars

\* A switch-tab submission was answered with a conflict.
C5_Witness ==
  \E r \in 1..Len(requests) :
    requests[r].entry = "switch-tab" /\ requests[r].outcome = "conflict"

\* C8: a wait that ends in a timeout ends no earlier than timeoutMs after its
\* own registration, and its request no longer owns an entry of pendingTasks.
C8_TimeoutNotBeforeDeadline ==
  \A r \in 1..Len(requests) :
    requests[r].outcome = "timeout"
      => /\ requests[r].respondedAt - requests[r].registeredAt >= timeoutMs
         /\ \A id \in DOMAIN pendingTasks : pendingTasks[id].reject # r

\* C11: a success or failure report whose taskId has no entry in pendingTasks
\* leaves pendingTasks, the timers and every submitter's request as they are and
\* is answered {success: true}; and after any report its taskId has no entry, so
\* a second report of the same id is such a report.
C11_ReportWithoutWaitIsNoOp ==
  [][\A taskId \in ReportTaskIds :
       ( /\ taskQueue' = taskQueue
         /\ Len(requests') = Len(requests)
         /\ \/ \E data \in TaskResults : ReportResult(taskId, data)
            \/ \E errorMsg \in ErrorMessages : ReportError(taskId, errorMsg) )
       => /\ taskId \notin DOMAIN pendingTasks'
          /\ taskId \notin DOMAIN pendingTasks
               => /\ pendingTasks' = pendingTasks
                  /\ timers' = timers
                  /\ requests' = requests
                  /\ reportReply'.status = 200 /\ reportReply'.success]_vars

\* The last report found no entry for its taskId and was answered, while one
\* wait had timed out and another was still registered.
C11_Witness ==
  /\ reportReply.success
  /\ ~reportReply.found
  /\ pendingTasks # NoMap
  /\ \E r \in 1..Len(requests) : requests[r].outcome = "timeout"

\* C12: GET /get-task on an empty queue hands out nothing and changes nothing; on
\* a non-empty queue it hands out the head and removes only the head; in both
\* cases pendingTasks, the timers, the requests and the TabManager are unchanged.
C12_PullTouchesOnlyTheHead ==
  [][GetTask =>
       /\ IF Len(taskQueue) = 0
          THEN taskQueue' = <<>> /\ pulled' = pulled
          ELSE /\ taskQueue' = Tail(taskQueue)
               /\ pulled' = Append(pulled, Head(taskQueue))
       /\ pendingTasks' = pendingTasks
       /\ timers' = timers
       /\ requests' = requests
       /\ tabManager' = tabManager
       /\ dbFile' = dbFile]_vars

\* The head of a queue of two tasks was handed out while both submitters wait:
\* the second task is still queued and both waits are still registered.
C12_Witness ==
  /\ Len(submitted) = 2
  /\ pulled = <<submitted[1]>>
  /\ taskQueue = <<submitted[2]>>
  /\ submitted[1].taskId # submitted[2].taskId
  /\ {submitted[1].taskId, submitted[2].taskId} \subseteq DOMAIN pendingTasks

\* The request was accepted under an id the handler generated from Date.now().
Generated(r) == requests[r].taskId \notin UserTaskIds

\* C13: any two submissions that were given a generated task id were given
\* different ids, also when both were accepted in the same clock tick.
C13_GeneratedIdsUnique ==
  \A r, q \in 1..Len(requests) :
    (r # q /\ Generated(r) /\ Generated(q))
      => requests[r].taskId # requests[q].taskId

\* C14: no task is accepted without the fields its command needs: a close-tab,
\* switch-tab or execute-js task names a tab, and an execute-js task carries a
\* script, whichever entry point accepted it.
C14_RequiredFieldsEnforced ==
  \A i \in 1..Len(submitted) :
    /\ submitted[i].command \in {"close-tab", "switch-tab", "execute-js"}
         => submitted[i].tabId # 0
    /\ submitted[i].command = "execute-js" => submitted[i].jsFunction # ""

\* C15: the accepted tasks are, unaltered and in order, the tasks handed out
\* followed by the tasks still queued, so no task is lost or duplicated; a pull
\* hands out at most one task, removing it from the queue, and what was handed
\* out stays handed out; and while the executor keeps polling, every accepted
\* task is eventually handed out.
C15_ExactlyOnceDelivery ==
  /\ [](pulled \o taskQueue = submitted)
  /\ [][/\ Len(pulled') \in {Len(pulled), Len(pulled) + 1}
         /\ SubSeq(pulled', 1, Len(pulled)) = pulled
         /\ Len(pulled') = Len(pulled) + 1
              => /\ taskQueue # <<>>
                 /\ pulled'[Len(pulled')] = Head(taskQueue)
                 /\ taskQueue' = Tail(taskQueue)]_vars
  /\ \A n \in 1..MaxRequests : (Len(submitted) >= n) ~> (Len(pulled) >= n)

\* Two tasks accepted under the same id were each handed out, one per pull, and
\* the queue is empty.
C15_Witness ==
  /\ Len(submitted) = 2
  /\ submitted[1].taskId = submitted[2].taskId
  /\ pulled = submitted
  /\ taskQueue = <<>>

\* The request's task was accepted into the queue.
Accepted(r) == requests[r].outcome \notin {"invalid", "conflict"}

\* The position among the accepted tasks of the task of request r.
SubmittedIndex(r) == Cardinality({ q \in 1..r : Accepted(q) })

\* C16: a submitter is answered with success only once its own task has been
\* handed out to the executor: no request has the success response while its
\* task is still in the queue.
C16_SuccessOnlyAfterPull ==
  \A r \in 1..Len(requests) :
    requests[r].outcome = "success" => SubmittedIndex(r) <= Len(pulled)

\* C17: every task in the queue has an entry in pendingTasks under its task id.
C17_EveryQueuedTaskAwaited ==
  \A i \in 1..Len(taskQueue) : taskQueue[i].taskId \in DOMAIN pendingTasks

\* A wait registered under this id has ended: its submitter was answered.
WaitEnded(taskId) ==
  \E r \in 1..Len(requests) :
    /\ requests[r].taskId = taskId
    /\ requests[r].outcome \in {"success", "error", "timeout"}

\* C17, amended: the step that enqueues a task registers, under the task's id, the
\* wait of the request it accepts, and no other step adds to the queue; a queued
\* task is without an entry in pendingTasks only after a wait under its id has
\* ended, by a timeout or a report, which leaves the task in the queue.
C17_QueuedTaskAwaitedUntilWaitEnds ==
  /\ [][Len(taskQueue') > Len(taskQueue)
          => LET task == taskQueue'[Len(taskQueue')]
             IN /\ taskQueue' = Append(taskQueue, task)
                /\ Len(requests') = Len(requests) + 1
                /\ task.taskId \in DOMAIN pendingTasks'
                /\ pendingTasks'[task.taskId].resolve = Len(requests')
                /\ requests'[Len(requests')].outcome = "waiting"]_vars
  /\ [](\A i \in 1..Len(taskQueue) :
          taskQueue[i].taskId \in DOMAIN pendingTasks \/ WaitEnded(taskQueue[i].taskId))

\* A task is still queued after the only wait under its id timed out, while
\* another queued task still has its wait.
C17_Witness ==
  /\ Len(taskQueue) = 2
  /\ taskQueue[1].taskId \notin DOMAIN pendingTasks
  /\ taskQueue[2].taskId \in DOMAIN pendingTasks
  /\ \E r \in 1..Len(requests) :
       requests[r].taskId = taskQueue[1].taskId /\ requests[r].outcome = "timeout"

\* C18: when the timer of a submitter's wait fires, the queue (the submitter's
\* own task included), the TabManager and its file are unchanged, and so are the
\* request and the pendingTasks entry of every other submitter.
C18_TimeoutTouchesOnlyItsSubmitter ==
  [][\A tm \in timers :
       TimerFires(tm) =>
         /\ taskQueue' = taskQueue
         /\ tabManager' = tabManager
         /\ dbFile' = dbFile
         /\ \A r \in 1..Len(requests) : r # tm.handle => requests'[r] = requests[r]
         /\ \A id \in DOMAIN pendingTasks :
              pendingTasks[id].reject # tm.handle
                => id \in DOMAIN pendingTasks' /\ pendingTasks'[id] = pendingTasks[id]]_vars

\* C19: when the executor fails a fetched task whose submitter is waiting, the
\* error the submitter receives is the message the command function failed
\* with, whether it threw an Error or rejected with a plain string.
C19_FailureMessageVerbatim ==
  [][\A i \in 1..Len(pulled) : \A outcome \in runCommand(pulled[i]) :
       ( /\ ~outcome.ok
         /\ pulled[i].taskId \in DOMAIN pendingTasks
         /\ ExecuteTask(i, outcome) )
       => LET r == pendingTasks[pulled[i].taskId].reject
          IN /\ requests'[r].outcome = "error"
             /\ requests'[r].error = outcome.failure.message]_vars

\* C23: a find-tab submission is accepted and handed out like any task; the
\* executor, having no case for it, fails it with "Unknown command: find-tab",
\* which is reported as an error; and the submitter of a find-tab task is never
\* answered with success.
C23_FindTabAlwaysFails ==
  /\ [](\A i \in 1..Len(pulled) :
          pulled[i].command = "find-tab"
            => runCommand(pulled[i]) = {Fails(Thrown("Unknown command: find-tab"))})
  /\ [](\A r \in 1..Len(requests) :
          (Accepted(r) /\ submitted[SubmittedIndex(r)].command = "find-tab")
            => requests[r].outcome # "success")

(***************************************************************************)
(* Properties of the Tab/Window State Store.                               *)
(***************************************************************************)
TrackedTabs == tabManager.openedTabs

TrackedWindows == tabManager.openedWindows

\* A tab with this identity is tracked by the manager tm.
Tracks(tm, tabId, windowId, url) ==
  \E i \in 1..Len(tm.openedTabs) :
    /\ tm.openedTabs[i].tabId = tabId
    /\ tm.openedTabs[i].windowId = windowId
    /\ tm.openedTabs[i].url = url

\* C6: after a success report with {tabId, windowId, url} the store tracks that
\* tab, with or without a wait for the report's id; after a success report with
\* {closedTabId} of a tracked tab the tab is gone, and if no other tracked tab is
\* in its window, the window is gone from openedWindows too.
C6_ReportsReconcileTheStore ==
  [][\A taskId \in ReportTaskIds, data \in ReportData :
       ReportResult(taskId, data) =>
         /\ (data.tabId # 0 /\ data.windowId # 0 /\ data.url # "")
              => Tracks(tabManager', data.tabId, data.windowId, data.url)
         /\ \A i \in 1..Len(TrackedTabs) :
              TrackedTabs[i].tabId = data.closedTabId =>
                /\ \A j \in 1..Len(tabManager'.openedTabs) :
                     tabManager'.openedTabs[j].tabId # data.closedTabId
                /\ (\A k \in 1..Len(TrackedTabs) :
                      k # i => TrackedTabs[k].windowId # TrackedTabs[i].windowId)
                     => \A w \in 1..Len(tabManager'.openedWindows) :
                          tabManager'.openedWindows[w].windowId
                            # TrackedTabs[i].windowId]_vars

\* The sequence without the elements that occurred before.
RECURSIVE Distinct(_)
Distinct(seq) ==
  IF seq = <<>> THEN <<>>
  ELSE LET rest == Distinct(SubSeq(seq, 1, Len(seq) - 1))
           last == seq[Len(seq)]
       IN IF Includes(rest, last) THEN rest ELSE Append(rest, last)

\* What a list of tabs says: its tabs in order, and its windows in the order they
\* first occur, each with the ids of its tabs in the order they first occur.
ListedTabs(tabs) ==
  [i \in 1..Len(tabs) |->
     [tabId |-> tabs[i].tabId, windowId |-> tabs[i].windowId, url |-> tabs[i].url]]

ListedWindows(tabs) ==
  LET ids == Distinct([i \in 1..Len(tabs) |-> tabs[i].windowId])
      TabsIn(w) ==
        LET In(tab) == tab.windowId = w
            mine == SelectSeq(tabs, In)
        IN Distinct([i \in 1..Len(mine) |-> mine[i].tabId])
  IN [k \in 1..Len(ids) |-> [windowId |-> ids[k], tabs |-> TabsIn(ids[k])]]

\* C7: after a resync with the list L the tracked tabs and windows are exactly
\* those L says, whatever the store held before.
C7_ResyncIsLastWriteWins ==
  lastOp.op \in {"replaceAllTabs", "sync-tabs"} =>
    /\ ListedTabs(TrackedTabs) = ListedTabs(lastOp.body.tabs)
    /\ [k \in 1..Len(TrackedWindows) |->
          [windowId |-> TrackedWindows[k].windowId, tabs |-> TrackedWindows[k].tabs]]
         = ListedWindows(lastOp.body.tabs)

\* A resync with a list of tabs ran on a store that tracked a tab the list does
\* not name.
C7_Witness ==
  /\ lastOp.op = "replaceAllTabs"
  /\ Len(lastOp.body.tabs) > 0
  /\ \E t \in lastOp.before :
       \A i \in 1..Len(lastOp.body.tabs) : lastOp.body.tabs[i].tabId # t

\* C9: a tabId is in a tracked window's tab set exactly if a tracked tab with that
\* tabId has that window's id, and every tracked tab's window is tracked.
C9_TabsAndWindowsAgree ==
  /\ \A w \in 1..Len(TrackedWindows) : \A t \in TabIds :
       Includes(TrackedWindows[w].tabs, t)
         <=> \E i \in 1..Len(TrackedTabs) :
               /\ TrackedTabs[i].tabId = t
               /\ TrackedTabs[i].windowId = TrackedWindows[w].windowId
  /\ \A i \in 1..Len(TrackedTabs) :
       \E w \in 1..Len(TrackedWindows) :
         TrackedWindows[w].windowId = TrackedTabs[i].windowId

\* C10: when a write completes and one or more mutating calls arrived while it
\* was in flight, exactly one follow-up write starts, carrying the store as it is
\* then.
C10_OneFollowUpWrite ==
  [][\A i \in 1..Len(tabManager.writes), err \in BOOLEAN :
       (WriteDone(i, err) /\ arrivals[i] >= 1) =>
         /\ Len(tabManager'.writes) = Len(tabManager.writes)
         /\ tabManager'.writes[Len(tabManager'.writes)]
              = [openedTabs |-> TrackedTabs, openedWindows |-> TrackedWindows]]_vars

\* C20: a store call that changes the tracked tabs or windows starts a write or
\* queues one; and once the calls have stopped, with every write succeeding,
\* eventually and from then on no write is in flight and openedTabs.json holds
\* the tabs and windows the manager holds.
C20_PersistenceConverges ==
  /\ [][(calls' = calls + 1 /\ <<tabManager'.openedTabs, tabManager'.openedWindows>>
                                 # <<TrackedTabs, TrackedWindows>>)
          => \/ Len(tabManager'.writes) > Len(tabManager.writes)
             \/ tabManager'.saveQueued]_vars
  /\ <>[](/\ Len(tabManager.writes) = 0
          /\ dbFile.openedTabs = TrackedTabs
          /\ dbFile.openedWindows = TrackedWindows)

\* C21: when a write fails, the tracked tabs and windows stay as they are; if a
\* save was queued, a write of the current tabs and windows is started at once
\* and the queue flag is cleared; if none was queued, saveInProgress is false, so
\* that the next mutating call starts a write.
C21_FailedWriteDoesNotWedge ==
  [][/\ \A i \in 1..Len(tabManager.writes) :
          WriteDone(i, TRUE) =>
            /\ tabManager'.openedTabs = TrackedTabs
            /\ tabManager'.openedWindows = TrackedWindows
            /\ ~tabManager'.saveQueued
            /\ IF tabManager.saveQueued
               THEN /\ tabManager'.saveInProgress
                    /\ Len(tabManager'.writes) = Len(tabManager.writes)
                    /\ tabManager'.writes[Len(tabManager'.writes)]
                         = [openedTabs |-> TrackedTabs, openedWindows |-> TrackedWindows]
               ELSE /\ ~tabManager'.saveInProgress
                    /\ Len(tabManager'.writes) = Len(tabManager.writes) - 1
     /\ \A t \in TabIds, w \in WindowIds, u \in Urls :
          (AddOrUpdateTab(t, w, u) /\ ~tabManager.saveInProgress)
            => Len(tabManager'.writes) = Len(tabManager.writes) + 1]_vars

\* The last write to complete failed and cut the file short; the manager still
\* tracks its tabs and a write of them is in flight.
C21_Witness ==
  /\ dbFile.status = "partial"
  /\ Len(TrackedTabs) > 0
  /\ tabManager.saveInProgress
  /\ Len(tabManager.writes) = 1
  /\ tabManager.writes[1].openedTabs = TrackedTabs

\* C24: no two tracked tabs have the same tabId, and no tracked window lists a
\* tabId twice.
C24_TabIdIsUniqueKey ==
  /\ \A i, j \in 1..Len(TrackedTabs) :
       TrackedTabs[i].tabId = TrackedTabs[j].tabId => i = j
  /\ \A w \in 1..Len(TrackedWindows) :
       \A i, j \in 1..Len(TrackedWindows[w].tabs) :
         TrackedWindows[w].tabs[i] = TrackedWindows[w].tabs[j] => i = j

\* C27: when a success report unblocks a waiting submitter, the submitter's
\* result is the reported data and the store already shows its effect: a tab the
\* data names by {tabId, windowId, url} is tracked, a tab it names by
\* {closedTabId} is not.
C27_StoreUpdatedBeforeSuccess ==
  [][\A taskId \in ReportTaskIds, data \in ReportData :
       (taskId \in DOMAIN pendingTasks /\ ReportResult(taskId, data))
         => LET r == pendingTasks[taskId].resolve
            IN /\ requests'[r].outcome = "success"
               /\ requests'[r].result = data
               /\ {"tabId", "windowId", "url"} \subseteq data.has
                    => Tracks(tabManager', data.tabId, data.windowId, data.url)
               /\ "closedTabId" \in data.has
                    => \A i \in 1..Len(tabManager'.openedTabs) :
                         tabManager'.openedTabs[i].tabId # data.closedTabId]_vars

\* C28: at most one fs.writeFile of openedTabs.json is in flight, and
\* saveInProgress is true exactly while one is.
C28_OneWriteInFlight ==
  /\ Len(tabManager.writes) <= 1
  /\ tabManager.saveInProgress <=> Len(tabManager.writes) = 1


(***************************************************************************)
(* The extension: the poll loop and the debounced reporter.                *)
(***************************************************************************)
\* C22: no failure inside a poll tick stops the poll loop: once armed, the
\* polling timer stays armed through a fetch that throws, an answer that is
\* not ok, a command that fails and a report that does not reach the server;
\* a failed fetch reports nothing and leaves the server as it was; a failed
\* command is reported once, at once, by reportError, which ends the wait for
\* its task in an error when it reaches the server.
C22_FailuresDoNotStopPolling ==
  [][/\ executor.pollingTimer => executor'.pollingTimer
     /\ (executor'.lastTick # executor.lastTick
           /\ executor'.lastTick \in {"fetch-failed", "not-ok"})
        => /\ executor'.pollingTimer
           /\ executor'.sent = executor.sent
           /\ executor'.timerId = executor.timerId
           /\ UNCHANGED ServerVars
     /\ \A i \in executor.running \ executor'.running :
          executor'.timerId = executor.timerId
          => /\ executor'.pollingTimer
             /\ executor'.sent[i] = executor.sent[i] + 1
             /\ executor'.lastTick \in {"failed", "report-failed"}
             /\ executor'.lastTick = "failed"
                => /\ reportReply' = ReplyTo(pulled[i].taskId, pendingTasks)
                   /\ pulled[i].taskId \in DOMAIN pendingTasks
                      => requests'[pendingTasks[pulled[i].taskId].reject].outcome
                           = "error"
  ]_vars

\* A fetch has failed after a command failed and was reported; the timer is
\* armed and a second task is still queued for the next tick.
C22_Witness ==
  /\ executor.pollingTimer
  /\ executor.lastTick = "fetch-failed"
  /\ Len(requests) = 2
  /\ requests[1].outcome = "error"
  /\ executor.sent = <<1>>
  /\ Len(taskQueue) = 1

\* C25: for every task the extension fetches, exactly one report carrying
\* its id is eventually sent: never two, and never none, whatever other
\* reports pass through the debounced reporter meanwhile.
C25_ExactlyOneReportPerFetchedTask ==
  /\ [](\A i \in 1..Len(executor.sent) : executor.sent[i] <= 1)
  /\ \A i \in 1..MaxRequests :
       (i <= Len(executor.sent)) ~> (i <= Len(executor.sent) /\ executor.sent[i] = 1)


\* The tabs the store tracks, each by its id, window and url.
StoreTabs ==
  { Tab(TrackedTabs[i].tabId, TrackedTabs[i].windowId, TrackedTabs[i].url) :
      i \in 1..Len(TrackedTabs) }

\* C26: the store stays eventually consistent with the browser: every tab
\* event (created, removed, url updated, moved) is eventually applied to it,
\* so once the browser's tabs stop changing, the tracked tabs, with their
\* windowId and url, are from some point on the browser's tabs.
C26_StoreFollowsBrowser == <>[](StoreTabs = executor.browser)

====
